---------------------------- MODULE Spec2Model ----------------------------
(***************************************************************************)
(* Pay-per-request gateway of newsie_ai.                                   *)
(*                                                                         *)
(*   main.py            test_accountant_agent: GET the premium resource,   *)
(*                      on 402 hand the bill to the accountant, on         *)
(*                      PAYMENT_SUCCESSFUL wait and redeem with the hash.  *)
(*   agents/retriv.py   NewsRetrievalAgent.run / _handle_payment_required  *)
(*                      / retriv_run_agent.                                *)
(*   api_server.py      request_news, the concurrent entry point.          *)
(*   agents/accountant  run_accountant_service is not part of the source   *)
(*                      tree; it is modelled from sections 4.1-4.3 of the  *)
(*                      specification (decode, decide, submit, await).     *)
(*                                                                         *)
(* Amounts are counted in units of 0.05 SOL: 0.05 = 1, 0.1 = 2, 0.5 = 10.  *)
(* Texts are sequences of tokens; one-letter tokens are alphanumeric.      *)
(***************************************************************************)
EXTENDS Integers, Sequences, FiniteSets, TLC

\* ------------------------------------------------------------------ bounds
MaxAmount == 10

\* --------------------------------------------------------------- profiles
DefaultBudgetLimit == 2
VipBudgetLimit == 2

NoProfile ==
  [user_id |-> "", tier |-> "", custom_budget_limit |-> 0, preference |-> ""]

\* A fallback that grants the top tier and ten times the limit.
generous_default_profile ==
  [user_id |-> "default_guest", tier |-> "VIP_PLATINUM",
   custom_budget_limit |-> 10 * 2, preference |-> "neutral"]

\* agents/retriv.py:173-178
default_profile ==
  [user_id |-> "default_guest", tier |-> "standard",
   custom_budget_limit |-> DefaultBudgetLimit, preference |-> "neutral"]

\* main.py:160-165
vip_profile ==
  [user_id |-> "main_tester_01", tier |-> "VIP_PLATINUM",
   custom_budget_limit |-> VipBudgetLimit, preference |-> "crypto"]

\* `not user_profile` of Python: None and the empty dict are both falsy.
IsFalsyProfile(p) == p = NoProfile

\* Tiers named in the source, lowest first.
TierRank(t) == IF t = "VIP_PLATINUM" THEN 1 ELSE 0

\* Profiles a caller of retriv_run_agent may hand in.
CallerProfiles ==
  {vip_profile,
   [user_id |-> "u1", tier |-> "standard",
    custom_budget_limit |-> MaxAmount, preference |-> "crypto"]}

\* ------------------------------------------------------------- challenges
Amounts == {a \in 1..MaxAmount : a <= DefaultBudgetLimit + 1 \/ a >= 10}
Refs == {"r1", "r2"}
RequiredFields == {"amount", "asset", "recipient", "reference"}

\* A payment-required body: the fields present, and the values that matter.
Payload(has, amt, ref, exp) ==
  [has |-> has, amount |-> amt, reference |-> ref, expired |-> exp]

NoPayload == Payload({}, 0, "", FALSE)

Payloads ==
  {Payload(h, a, r, e) :
     h \in {RequiredFields, RequiredFields \ {"recipient"}},
     a \in Amounts, r \in Refs, e \in BOOLEAN}

\* ------------------------------------------------------------------ texts
Marker == "PAYMENT_SUCCESSFUL"
AlnumTokens == {"a", "b"}
TxRefs == {<<"a", "b">>, <<"b">>}

IsSpace(t) == t = " "
IsAlnum(t) == t \in AlnumTokens

Contains(text, tok) == \E i \in 1..Len(text) : text[i] = tok

\* First index >= j that does not hold a space (Len+1 when there is none).
RECURSIVE SkipSpaces(_, _)
SkipSpaces(text, j) ==
  IF j <= Len(text) /\ IsSpace(text[j]) THEN SkipSpaces(text, j + 1) ELSE j

\* The maximal alphanumeric run that starts at j.
RECURSIVE AlnumRun(_, _)
AlnumRun(text, j) ==
  IF j <= Len(text) /\ IsAlnum(text[j])
  THEN <<text[j]>> \o AlnumRun(text, j + 1)
  ELSE << >>

\* re.search(r"PAYMENT_SUCCESSFUL:\s*([A-Za-z0-9]+)", text) matches at i.
MatchAt(text, i) ==
  /\ text[i] = Marker
  /\ i + 1 <= Len(text)
  /\ text[i + 1] = ":"
  /\ AlnumRun(text, SkipSpaces(text, i + 2)) # << >>

HasMatch(text) == \E i \in 1..Len(text) : MatchAt(text, i)

\* group(1) of a pattern whose group stops after one character.
MatchGroupFirstToken(text) ==
  LET i == CHOOSE k \in 1..Len(text) :
             MatchAt(text, k) /\ \A m \in 1..(k - 1) : ~MatchAt(text, m)
  IN <<text[SkipSpaces(text, i + 2)]>>

\* group(1) of the leftmost match.
MatchGroup(text) ==
  LET i == CHOOSE k \in 1..Len(text) :
             MatchAt(text, k) /\ \A m \in 1..(k - 1) : ~MatchAt(text, m)
  IN AlnumRun(text, SkipSpaces(text, i + 2))

\* ------------------------------------------- accountant (agents/accountant)
\* decode of section 4.1: all four required fields and a positive amount.
Decode(p) == RequiredFields \subseteq p.has /\ p.amount > 0

\* decide of section 4.2: expiry first, then the hard limit, else approve.
Decide(p, profile) ==
  IF p.expired THEN "expired"
  ELSE IF p.amount > profile.custom_budget_limit THEN "over_budget"
  ELSE "approve"

SuccessText(tx) == <<Marker, ":", " ">> \o tx
\* The same report without the colon the caller's pattern needs.
LooseSuccessText(tx) == <<Marker, " ">> \o tx
RejectText(reason) == <<"REJECTED", ":", " ", reason>>
FailText(reason) == <<"PAYMENT_FAILED", ":", " ", reason>>
ErrorText == <<"ERROR", ":", " ", "decode_error">>

AcctIdle ==
  [st |-> "idle", payload |-> NoPayload, profile |-> NoProfile,
   decision |-> "none", settle |-> "none", tx |-> << >>, submits |-> 0,
   text |-> << >>]

\* run_accountant_service(payment_info, user_profile) is entered.
AcctStart(p, profile) ==
  [AcctIdle EXCEPT !.st = "evaluate", !.payload = p, !.profile = profile]

\* Codec then Policy Engine; a rejection or a decode error ends the call.
AcctEvaluate(a) ==
  IF ~Decode(a.payload)
  THEN [a EXCEPT !.st = "returned", !.decision = "decode_error",
                 !.text = ErrorText]
  ELSE LET d == Decide(a.payload, a.profile) IN
       IF d = "approve"
       THEN [a EXCEPT !.st = "submit", !.decision = d]
       ELSE [a EXCEPT !.st = "returned", !.decision = d,
                      !.text = RejectText(d)]

\* Settlement Executor submit: one external transfer attempt, no retry.
AcctSubmit(a, ok, tx) ==
  IF ok
  THEN [a EXCEPT !.st = "await", !.settle = "submitted", !.tx = tx,
                 !.submits = @ + 1]
  ELSE [a EXCEPT !.st = "returned", !.settle = "failed",
                 !.submits = @ + 1, !.text = FailText("submission_failed")]

\* Settlement Executor awaitConfirmation, then the report to the caller.
AcctAwait(a, confirmed, strict) ==
  IF confirmed
  THEN [a EXCEPT !.st = "returned", !.settle = "confirmed",
                 !.text = IF strict THEN SuccessText(a.tx)
                          ELSE LooseSuccessText(a.tx)]
  ELSE [a EXCEPT !.st = "returned", !.settle = "timed_out",
                 !.text = FailText("timed_out")]

\* ------------------------------------------------------------------ state
VARIABLES
  pc,          \* position of test_accountant_agent
  payload,     \* bill_data of the 402 response
  acct,        \* the accountant call made by test_accountant_agent
  agent_res,   \* text returned by run_accountant_service
  tx_hash,     \* match.group(1)
  events,      \* submit / awaitConfirmation / sleep / redeem, in order
  printed,     \* what test_accountant_agent reported, in order
  attempts,    \* redemption requests sent
  last_reply,  \* answer to the latest redemption request
  lag,         \* redemption requests the server still answers unconfirmed
  fault,       \* what the server answers once the lag is over
  exc,         \* exception that left test_accountant_agent ("" = none)
  sent         \* the HTTP GETs of test_accountant_agent, in order

mainVars ==
  <<pc, payload, acct, agent_res, tx_hash, events, printed, attempts,
    last_reply, lag, fault, exc, sent>>

MaxLag == 2
MaxArticles == 2
Faults == {"none", "invalid_reference", "server_error", "connection"}

MainInit ==
  /\ pc = "start"
  /\ payload = NoPayload
  /\ acct = AcctIdle
  /\ agent_res = << >>
  /\ tx_hash = << >>
  /\ events = << >>
  /\ printed = << >>
  /\ attempts = 0
  /\ last_reply = "none"
  /\ lag \in 0..MaxLag
  /\ fault \in Faults
  /\ exc = ""
  /\ sent = << >>

Say(msg) == printed' = Append(printed, msg)

\* main.py:168
server_url == "http://localhost:8000/premium-content"

\* requests.get(url, headers={"Authorization": f"Bearer {bearer}"}); the
\* first GET carries no credential.
Get(url, bearer) == sent' = Append(sent, [url |-> url, bearer |-> bearer])

\* main.py:172-176  requests.get fails with ConnectionError: report, return.
MainGetConnectionError ==
  /\ pc = "start"
  /\ Get(server_url, << >>)
  /\ pc' = "finally"
  /\ Say("ConnectionFailed")
  /\ UNCHANGED <<payload, acct, agent_res, tx_hash, events, attempts,
                 last_reply, lag, fault, exc>>

\* main.py:172-180  any other requests error, or a 402 body that is not
\* JSON, is not caught inside test_accountant_agent.
MainGetRaises ==
  /\ pc = "start"
  /\ Get(server_url, << >>)
  /\ pc' = "finally"
  /\ exc' \in {"Timeout", "JSONDecodeError"}
  /\ UNCHANGED <<payload, acct, agent_res, tx_hash, events, printed,
                 attempts, last_reply, lag, fault>>

\* main.py:178-183  status 402: the body is the payload.
MainGet402 ==
  /\ pc = "start"
  /\ Get(server_url, << >>)
  /\ \E p \in Payloads : payload' = p
  /\ pc' = "invoke"
  /\ Say("402Triggered")
  /\ UNCHANGED <<acct, agent_res, tx_hash, events, attempts, last_reply,
                 lag, fault, exc>>

\* main.py:212-215  status 200, or any other status.
MainGetOther ==
  /\ pc = "start"
  /\ Get(server_url, << >>)
  /\ pc' = "finally"
  /\ \E m \in {"Ok200", "UnexpectedStatus"} : Say(m)
  /\ UNCHANGED <<payload, acct, agent_res, tx_hash, events, attempts,
                 last_reply, lag, fault, exc>>

\* A call that loses the limit on the way to the accountant.
AccountantProfileArgUnlimited(p) ==
  [p EXCEPT !.custom_budget_limit = MaxAmount + 1]

\* main.py:189  the profile handed to the accountant.
AccountantProfileArg(p) == p

\* A payload whose missing fields are filled in before it is handed on.
ExtractPayloadFilled(bill) == [bill EXCEPT !.has = RequiredFields]

\* main.py:182-183  payload = bill_data, handed on as it came.
ExtractPayload(bill) == bill

\* main.py:186-189  announce the budget, call the accountant.
MainInvoke ==
  /\ pc = "invoke"
  /\ acct' = AcctStart(ExtractPayload(payload),
                       AccountantProfileArg(vip_profile))
  /\ pc' = "accountant"
  /\ Say("InvokingAccountant")
  /\ UNCHANGED <<payload, agent_res, tx_hash, events, attempts, last_reply,
                 lag, fault, exc, sent>>

MainAcctEvaluate ==
  /\ pc = "accountant" /\ acct.st = "evaluate"
  /\ acct' = AcctEvaluate(acct)
  /\ UNCHANGED <<pc, payload, agent_res, tx_hash, events, printed, attempts,
                 last_reply, lag, fault, exc, sent>>

MainAcctSubmit ==
  /\ pc = "accountant" /\ acct.st = "submit"
  /\ \E ok \in BOOLEAN, tx \in TxRefs : acct' = AcctSubmit(acct, ok, tx)
  /\ events' = Append(events, "submit")
  /\ UNCHANGED <<pc, payload, agent_res, tx_hash, printed, attempts,
                 last_reply, lag, fault, exc, sent>>

MainAcctAwait ==
  /\ pc = "accountant" /\ acct.st = "await"
  /\ \E c \in BOOLEAN, s \in BOOLEAN : acct' = AcctAwait(acct, c, s)
  /\ events' = Append(events, "awaitConfirmation")
  /\ UNCHANGED <<pc, payload, agent_res, tx_hash, printed, attempts,
                 last_reply, lag, fault, exc, sent>>

\* A caller that sends a timed-out payment to the accountant once more.
MainAcctReturnRetrying ==
  /\ pc = "accountant" /\ acct.st = "returned"
  /\ IF acct.settle = "timed_out" /\ acct.submits < 2
     THEN /\ acct' = [acct EXCEPT !.st = "submit"]
          /\ UNCHANGED <<pc, agent_res, printed>>
     ELSE /\ agent_res' = acct.text
          /\ pc' = "verify"
          /\ Say("AgentDecision")
          /\ UNCHANGED acct
  /\ UNCHANGED <<payload, tx_hash, events, attempts, last_reply, lag,
                 fault, exc, sent>>

\* main.py:189-190  agent_res = await run_accountant_service(...); print it.
MainAcctReturn ==
  /\ pc = "accountant" /\ acct.st = "returned"
  /\ agent_res' = acct.text
  /\ pc' = "verify"
  /\ Say("AgentDecision")
  /\ UNCHANGED <<payload, acct, tx_hash, events, attempts, last_reply, lag,
                 fault, exc, sent>>

\* A guard that also lets a failure report into the redemption branch.
PaymentReportedOrFailed(text) ==
  Contains(text, Marker) \/ Contains(text, "PAYMENT_FAILED")

\* main.py:193  the guard of the whole redemption branch.
PaymentReported(text) == Contains(text, Marker)

\* The redemption branch taken whatever the accountant answered.
MainVerifyUnguarded ==
  /\ pc = "verify"
  /\ tx_hash' = IF HasMatch(agent_res) THEN MatchGroup(agent_res) ELSE << >>
  /\ pc' = "sleep"
  /\ Say("HashFound")
  /\ UNCHANGED <<payload, acct, agent_res, events, attempts, last_reply,
                 lag, fault, exc, sent>>

\* main.py:193-197, 209-210  look for the marker, then for the hash.
MainVerify ==
  /\ pc = "verify"
  /\ IF PaymentReported(agent_res)
     THEN IF HasMatch(agent_res)
          THEN /\ tx_hash' = MatchGroup(agent_res)
               /\ pc' = "sleep"
               /\ Say("HashFound")
          ELSE /\ pc' = "finally"
               /\ UNCHANGED <<tx_hash, printed>>
     ELSE /\ pc' = "finally"
          /\ Say("NotExecuted")
          /\ UNCHANGED tx_hash
  /\ UNCHANGED <<payload, acct, agent_res, events, attempts, last_reply,
                 lag, fault, exc, sent>>

\* Redemption sent straight after the hash was found, without the wait.
MainSleepSkipped ==
  /\ pc = "sleep"
  /\ pc' = "redeem"
  /\ UNCHANGED <<payload, acct, agent_res, tx_hash, events, printed,
                 attempts, last_reply, lag, fault, exc, sent>>

\* main.py:198-199  await asyncio.sleep(10)
MainSleep ==
  /\ pc = "sleep"
  /\ events' = Append(events, "sleep")
  /\ pc' = "redeem"
  /\ UNCHANGED <<payload, acct, agent_res, tx_hash, printed, attempts,
                 last_reply, lag, fault, exc, sent>>

\* What the content server answers to the n-th redemption request.
ServerReply(n) ==
  IF n <= lag THEN "not_yet_confirmed"
  ELSE IF fault = "none" THEN "ok" ELSE fault

\* main.py:201-208  one GET with the bearer hash; 200 or verification failed.
\* A connection error of this GET is not caught here.
MainRedeem ==
  /\ pc = "redeem"
  /\ Get(server_url, tx_hash)
  /\ attempts' = attempts + 1
  /\ events' = Append(events, "redeem")
  /\ LET r == ServerReply(attempts + 1) IN
       /\ last_reply' = r
       /\ IF r = "connection"
          THEN /\ exc' = "ConnectionError"
               /\ pc' = "finally"
               /\ UNCHANGED printed
          ELSE /\ pc' = "finally"
               /\ Say(IF r = "ok" THEN "Success" ELSE "VerificationFailed")
               /\ UNCHANGED exc
  /\ UNCHANGED <<payload, acct, agent_res, tx_hash, lag, fault>>

\* main.py:217-221  finally: stop the pay service; an exception goes on up.
MainFinally ==
  /\ pc = "finally"
  /\ pc' = IF exc = "" THEN "done" ELSE "raised"
  /\ UNCHANGED <<payload, acct, agent_res, tx_hash, events, printed,
                 attempts, last_reply, lag, fault, exc, sent>>

\* main.py:376-379  Ctrl-C while asyncio.run(test_accountant_agent()) waits
\* at line 189 or 199: the coroutine is cancelled where it stands, the
\* finally block runs and main() reports the interruption.
MainInterrupt ==
  /\ pc \in {"accountant", "sleep"}
  /\ exc' = "KeyboardInterrupt"
  /\ pc' = "finally"
  /\ UNCHANGED <<payload, acct, agent_res, tx_hash, events, printed,
                 attempts, last_reply, lag, fault, sent>>

MainNext ==
  \/ MainGetConnectionError
  \/ MainGetRaises
  \/ MainGet402
  \/ MainGetOther
  \/ MainInvoke
  \/ MainAcctEvaluate
  \/ MainAcctSubmit
  \/ MainAcctAwait
  \/ MainAcctReturn
  \/ MainVerify
  \/ MainSleep
  \/ MainRedeem
  \/ MainFinally

\* ------------------------------------------------ agents/retriv.py, state
Inv == {1, 2}

VARIABLES
  rpc,             \* position of each retriv_run_agent invocation
  user_profile,    \* the user_profile argument of retriv_run_agent
  agent_response,  \* result["messages"][-1].content and the bill it carries
  payment_info,    \* agent_response.strip()
  handler_profile, \* user_profile inside _handle_payment_required
  racct,           \* the accountant call of each invocation
  result,          \* what retriv_run_agent returns
  rexc             \* exception that left retriv_run_agent ("" = none)

retrivVars ==
  <<rpc, user_profile, agent_response, payment_info, handler_profile, racct,
    result, rexc>>



Flag402 == "__402_payment_required__"

Response(text, p) == [text |-> text, payload |-> p]

\* tools/retrival_tools.py:59-77  formatted articles (or the no-news line).
ContentResponse == Response(<<"Found", " ", "articles">>, NoPayload)

\* tools/retrival_tools.py:78-87  the JSON the tool returns on a 402.
ChallengeResponse(p) == Response(<<"{", Flag402, "}">>, p)

EmptyResponses == {Response(<< >>, NoPayload), Response(<<" ">>, NoPayload)}

Responses ==
  {ContentResponse} \cup EmptyResponses
    \cup {ChallengeResponse(p) : p \in Payloads}

\* str.strip(): drop the spaces at both ends.
RECURSIVE Strip(_)
Strip(text) ==
  IF text = << >> THEN text
  ELSE IF IsSpace(Head(text)) THEN Strip(Tail(text))
  ELSE IF IsSpace(text[Len(text)]) THEN Strip(SubSeq(text, 1, Len(text) - 1))
  ELSE text

\* Truthiness of a Python str.
Truthy(text) == text # << >>

RetrivInit ==
  /\ rpc = [i \in Inv |-> "idle"]
  /\ user_profile = [i \in Inv |-> NoProfile]
  /\ agent_response = [i \in Inv |-> Response(<< >>, NoPayload)]
  /\ payment_info = [i \in Inv |-> << >>]
  /\ handler_profile = [i \in Inv |-> NoProfile]
  /\ racct = [i \in Inv |-> AcctIdle]
  /\ result = [i \in Inv |-> << >>]
  /\ rexc = [i \in Inv |-> ""]

\* agents/retriv.py:200-213  retriv_run_agent(context, user_profile).
\* api_server.py:186 calls it without a profile.
RetrivCall(i, profiles) ==
  /\ rpc[i] = "idle"
  /\ \E p \in profiles : user_profile' = [user_profile EXCEPT ![i] = p]
  /\ rpc' = [rpc EXCEPT ![i] = "run"]
  /\ UNCHANGED <<agent_response, payment_info, handler_profile, racct,
                 result, rexc>>

\* agents/retriv.py:112-113  the agent run ends with a final message.
RetrivAinvoke(i, responses) ==
  /\ rpc[i] = "run"
  /\ \E r \in responses : agent_response' = [agent_response EXCEPT ![i] = r]
  /\ rpc' = [rpc EXCEPT ![i] = "check"]
  /\ UNCHANGED <<user_profile, payment_info, handler_profile, racct, result,
                 rexc>>

\* agents/retriv.py:97-112  tool service or model unreachable: ainvoke (or
\* create_news_agent) raises and run() has no handler.
RetrivAinvokeRaises(i) ==
  /\ rpc[i] = "run"
  /\ rexc' = [rexc EXCEPT ![i] = "ConnectionError"]
  /\ rpc' = [rpc EXCEPT ![i] = "cleanup"]
  /\ UNCHANGED <<user_profile, agent_response, payment_info,
                 handler_profile, racct, result>>

\* agents/retriv.py:117  payment_info = agent_response.strip()
ExtractPaymentInfo(resp) == Strip(resp.text)

\* agents/retriv.py:150  the profile argument of _handle_payment_required:
\* the call names none, so the parameter takes its default None.
HandlerProfileArg(p) == NoProfile

\* agents/retriv.py:117-151  strip, test, hand over or return the response.
RetrivCheck(i) ==
  /\ rpc[i] = "check"
  /\ LET info == ExtractPaymentInfo(agent_response[i]) IN
       /\ payment_info' = [payment_info EXCEPT ![i] = info]
       /\ IF Truthy(info)
          THEN /\ rpc' = [rpc EXCEPT ![i] = "handler"]
               /\ handler_profile' =
                    [handler_profile EXCEPT
                       ![i] = HandlerProfileArg(user_profile[i])]
               /\ UNCHANGED result
          ELSE /\ rpc' = [rpc EXCEPT ![i] = "cleanup"]
               /\ result' = [result EXCEPT ![i] = agent_response[i].text]
               /\ UNCHANGED handler_profile
  /\ UNCHANGED <<user_profile, agent_response, racct, rexc>>

\* agents/retriv.py:172-178  the fallback when no profile came in.
EffectiveProfile(p) == IF IsFalsyProfile(p) THEN default_profile ELSE p

\* agents/retriv.py:153-181  default the profile, call the accountant with
\* the text it was given (the bill travels inside that text).
RetrivHandler(i) ==
  /\ rpc[i] = "handler"
  /\ handler_profile' =
       [handler_profile EXCEPT ![i] = EffectiveProfile(handler_profile[i])]
  /\ racct' = [racct EXCEPT
                 ![i] = AcctStart(agent_response[i].payload,
                                  EffectiveProfile(handler_profile[i]))]
  /\ rpc' = [rpc EXCEPT ![i] = "accountant"]
  /\ UNCHANGED <<user_profile, agent_response, payment_info, result, rexc>>

RetrivAcctEvaluate(i) ==
  /\ rpc[i] = "accountant" /\ racct[i].st = "evaluate"
  /\ racct' = [racct EXCEPT ![i] = AcctEvaluate(racct[i])]
  /\ UNCHANGED <<rpc, user_profile, agent_response, payment_info,
                 handler_profile, result, rexc>>

RetrivAcctSubmit(i) ==
  /\ rpc[i] = "accountant" /\ racct[i].st = "submit"
  /\ \E ok \in BOOLEAN, tx \in TxRefs :
       racct' = [racct EXCEPT ![i] = AcctSubmit(racct[i], ok, tx)]
  /\ UNCHANGED <<rpc, user_profile, agent_response, payment_info,
                 handler_profile, result, rexc>>

RetrivAcctAwait(i) ==
  /\ rpc[i] = "accountant" /\ racct[i].st = "await"
  /\ \E c \in BOOLEAN, s \in BOOLEAN :
       racct' = [racct EXCEPT ![i] = AcctAwait(racct[i], c, s)]
  /\ UNCHANGED <<rpc, user_profile, agent_response, payment_info,
                 handler_profile, result, rexc>>

\* agents/retriv.py:181-183  result = await run_accountant_service(...)
RetrivAcctReturn(i) ==
  /\ rpc[i] = "accountant" /\ racct[i].st = "returned"
  /\ result' = [result EXCEPT ![i] = racct[i].text]
  /\ rpc' = [rpc EXCEPT ![i] = "cleanup"]
  /\ UNCHANGED <<user_profile, agent_response, payment_info,
                 handler_profile, racct, rexc>>

\* agents/retriv.py:212-216  try/finally: cleanup, then return or re-raise.
RetrivCleanup(i) ==
  /\ rpc[i] = "cleanup"
  /\ rpc' = [rpc EXCEPT ![i] = IF rexc[i] = "" THEN "done" ELSE "raised"]
  /\ UNCHANGED <<user_profile, agent_response, payment_info,
                 handler_profile, racct, result, rexc>>

RetrivStep(i, profiles, responses) ==
  \/ RetrivCall(i, profiles)
  \/ RetrivAinvoke(i, responses)
  \/ RetrivAinvokeRaises(i)
  \/ RetrivCheck(i)
  \/ RetrivHandler(i)
  \/ RetrivAcctEvaluate(i)
  \/ RetrivAcctSubmit(i)
  \/ RetrivAcctAwait(i)
  \/ RetrivAcctReturn(i)
  \/ RetrivCleanup(i)

\* ------------------------------------------- database.py, api_server.py
VARIABLES
  table,        \* the rows of user_profiles
  db_imported,  \* `from database import ...` worked (api_server.py:23-27)
  last          \* the latest call: its arguments, its answer, the rows before

dbVars == <<table, db_imported, last>>

\* Python None / SQL NULL, among strings written as token sequences.
PyNone == <<"None">>

Emails ==
  {<<"alice", "@", "a.com">>, <<"alice", "@", "b.com">>,
   <<"bob", "@", "a.com">>}
Names == {<<"Al">>, <<"Bo">>}
UserIds == {<<"alice">>, <<"bob">>}
ProfileKeys == {"user_id", "name", "email"}

Row(uid, name, email) == [user_id |-> uid, name |-> name, email |-> email]
NoRow == Row(PyNone, PyNone, PyNone)

\* A dict handed to save_user_profile: the keys it has and their values.
ProfileArg(keys, uid, name, email) ==
  [keys |-> keys, user_id |-> uid, name |-> name, email |-> email]

\* Complete dicts with any value or None, and dicts that lack one key (the
\* value of an absent key is written PyNone and never read).
ProfileArgs ==
  LET all == {ProfileArg(k, u, n, e) :
                k \in {ProfileKeys} \cup {ProfileKeys \ {f} : f \in ProfileKeys},
                u \in UserIds \cup {PyNone},
                n \in Names \cup {PyNone},
                e \in Emails \cup {PyNone}}
  IN {p \in all : \A f \in ProfileKeys \ p.keys : p[f] = PyNone}

\* except-clause matching: every class here derives from Exception, and
\* IntegrityError / OperationalError derive from sqlite3.Error.
ExcIsA(c, base) ==
  \/ c = base
  \/ base = "Exception"
  \/ base = "sqlite3.Error" /\ c \in {"IntegrityError", "OperationalError"}

\* database.py:43-54  the constraints an INSERT or UPDATE of `row` must meet
\* among the rows `others` that stay as they are.  A TEXT PRIMARY KEY is not
\* NOT NULL in SQLite, and NULL keys never collide.
ConstraintsHold(row, others) ==
  /\ row.name # PyNone
  /\ row.email # PyNone
  /\ \A r \in others : r.email # row.email
  /\ \A r \in others : row.user_id = PyNone \/ r.user_id # row.user_id

Done(t, committed) == [exc |-> "none", table |-> t, committed |-> committed]
Throw(c, t) == [exc |-> c, table |-> t, committed |-> FALSE]

\* database.py:102-149  the try body of save_user_profile: what it raises,
\* the rows afterwards, whether conn.commit() was reached.
SaveBody(t, p, dberr) ==
  IF dberr THEN Throw("OperationalError", t)
  ELSE IF "user_id" \notin p.keys THEN Throw("KeyError", t)
  ELSE LET same == {r \in t : p.user_id # PyNone /\ r.user_id = p.user_id}
           row == Row(p.user_id, p.name, p.email)
       IN IF "name" \notin p.keys \/ "email" \notin p.keys
          THEN Throw("KeyError", t)
          ELSE IF ~ConstraintsHold(row, t \ same)
          THEN Throw("IntegrityError", t)
          ELSE Done((t \ same) \cup {row}, TRUE)

Returned(ret, b) ==
  [ret |-> ret, raised |-> "none", table |-> b.table,
   committed |-> b.committed]
Escaped(b) ==
  [ret |-> FALSE, raised |-> b.exc, table |-> b.table,
   committed |-> b.committed]

\* A save_user_profile whose only handler is the one for sqlite3.Error.
save_user_profile_sqlite_only(t, p, dberr) ==
  LET b == SaveBody(t, p, dberr) IN
  IF b.exc = "none" THEN Returned(TRUE, b)
  ELSE IF ExcIsA(b.exc, "sqlite3.Error") THEN Returned(FALSE, b)
  ELSE Escaped(b)

\* database.py:85-156  save_user_profile: True after the commit, False from
\* either except clause.
save_user_profile(t, p, dberr) ==
  LET b == SaveBody(t, p, dberr) IN
  IF b.exc = "none" THEN Returned(TRUE, b)
  ELSE IF ExcIsA(b.exc, "sqlite3.Error") THEN Returned(FALSE, b)
  ELSE IF ExcIsA(b.exc, "Exception") THEN Returned(FALSE, b)
  ELSE Escaped(b)

Lookup(rows) == IF rows = {} THEN NoRow ELSE CHOOSE r \in rows : TRUE

\* database.py:159-199  get_user_profile on a readable database.
get_user_profile(t, uid) == Lookup({r \in t : r.user_id = uid})

\* A lookup by email that never finds a row.
get_user_profile_by_email_blind(t, email) == NoRow

\* database.py:202-240  get_user_profile_by_email on a readable database.
get_user_profile_by_email(t, email) == Lookup({r \in t : r.email = email})

\* api_server.py:123  profile.email.split("@")[0]
RECURSIVE LocalPart(_)
LocalPart(email) ==
  IF email = << >> \/ Head(email) = "@" THEN << >>
  ELSE <<Head(email)>> \o LocalPart(Tail(email))

\* The id the API uses: the local part as one string.
UserIdOf(email) == LocalPart(email)

Call(op, uid, name, email) ==
  [op |-> op, user_id |-> uid, name |-> name, email |-> email,
   status |-> 0, body |-> "none", reply_user_id |-> PyNone,
   reply_profile |-> NoRow, ret |-> FALSE, raised |-> "none",
   committed |-> FALSE, before |-> table]

NoCall ==
  [op |-> "none", user_id |-> PyNone, name |-> PyNone, email |-> PyNone,
   status |-> 0, body |-> "none", reply_user_id |-> PyNone,
   reply_profile |-> NoRow, ret |-> FALSE, raised |-> "none",
   committed |-> FALSE, before |-> {}]

\* database.py:26-62, api_server.py:32-42  an empty table after start-up.
DbInit ==
  /\ table = {}
  /\ db_imported \in BOOLEAN
  /\ last = NoCall

\* A direct call of database.save_user_profile.
SaveUserProfile ==
  /\ db_imported
  /\ \E p \in ProfileArgs, dberr \in BOOLEAN :
       LET o == save_user_profile(table, p, dberr) IN
         /\ table' = o.table
         /\ last' = [Call("save", p.user_id, p.name, p.email) EXCEPT
                       !.ret = o.ret, !.raised = o.raised,
                       !.committed = o.committed,
                       !.body = IF ProfileKeys \subseteq p.keys
                                THEN "complete" ELSE "incomplete"]
  /\ UNCHANGED db_imported

\* The status FastAPI sends for an exception that leaves a handler's try
\* body, given the handler's clauses `except NameError` (503, or the warning
\* answer) and `except Exception` (500).  HTTPException is an Exception.
StatusAfterExcept(class, status) ==
  IF ExcIsA(class, "NameError") THEN 503
  ELSE IF ExcIsA(class, "Exception") THEN 500
  ELSE status

\* api_server.py:95-171  POST /api/profile
CreateUserProfile ==
  /\ \E name \in Names, email \in Emails, dberr \in BOOLEAN :
       LET user_id == UserIdOf(email)
           call == Call("post_profile", user_id, name, email)
           existing == get_user_profile_by_email(table, email)
           o == save_user_profile(table, ProfileArg(ProfileKeys, user_id,
                                                    name, email), dberr)
       IN IF ~db_imported
          THEN /\ last' = [call EXCEPT !.status = 200, !.body = "warning",
                             !.reply_user_id = user_id,
                             !.reply_profile = Row(user_id, name, email)]
               /\ UNCHANGED table
          ELSE IF existing # NoRow
          THEN /\ last' = [call EXCEPT !.status = 200,
                             !.body = "already_registered",
                             !.reply_user_id = existing.user_id,
                             !.reply_profile = existing]
               /\ UNCHANGED table
          ELSE /\ table' = o.table
               /\ last' =
                    IF o.ret
                    THEN [call EXCEPT !.status = 200, !.body = "success",
                            !.reply_user_id = user_id, !.ret = TRUE,
                            !.committed = o.committed,
                            !.reply_profile = Row(user_id, name, email)]
                    ELSE [call EXCEPT
                            !.status = StatusAfterExcept("HTTPException", 500),
                            !.body = "error"]
  /\ UNCHANGED db_imported

\* The answer of both GET handlers for the row the lookup gave.
GetAnswer(call, row) ==
  IF ~db_imported
  THEN [call EXCEPT !.status = StatusAfterExcept("NameError", 0),
                    !.body = "error"]
  ELSE IF row # NoRow
  THEN [call EXCEPT !.status = 200, !.body = "success",
                    !.reply_profile = row]
  ELSE [call EXCEPT !.status = StatusAfterExcept("HTTPException", 404),
                    !.body = "error"]

\* api_server.py:246-261  GET /api/profile/{user_id}
GetUserProfileEndpoint ==
  /\ \E uid \in UserIds :
       last' = GetAnswer(Call("get_by_id", uid, PyNone, PyNone),
                         get_user_profile(table, uid))
  /\ UNCHANGED <<table, db_imported>>

\* api_server.py:263-278  GET /api/profile/email/{email}
GetUserProfileByEmailEndpoint ==
  /\ \E email \in Emails :
       last' = GetAnswer(Call("get_by_email", PyNone, PyNone, email),
                         get_user_profile_by_email(table, email))
  /\ UNCHANGED <<table, db_imported>>

DbNext ==
  \/ SaveUserProfile
  \/ CreateUserProfile
  \/ GetUserProfileEndpoint
  \/ GetUserProfileByEmailEndpoint

\* --------------------------------------------- tools/retrival_tools.py
VARIABLES
  tool_call,  \* the arguments of get_bitcoin_news and what the provider does
  tool_out    \* what the call gave back: a string, or an exception

toolVars == <<tool_call, tool_out>>

ArticleKeys == {"title", "summary", "url", "source", "time_published"}

\* One article dict of the provider: the keys it has; values are fixed.
Article(keys) ==
  [keys |-> keys, title |-> "T", summary |-> "S", url |-> "U",
   source |-> "Src", time_published |-> "2025"]

Articles == {Article(k) : k \in SUBSET ArticleKeys}

RECURSIVE SeqsUpTo(_, _)
SeqsUpTo(S, n) ==
  IF n = 0 THEN {<< >>}
  ELSE LET shorter == SeqsUpTo(S, n - 1)
       IN shorter \cup {Append(q, x) : q \in shorter, x \in S}

NewsLists == SeqsUpTo(Articles, MaxArticles)

\* What BitcoinNews.retrive_news does: a list, the payment exception with
\* the provider's body, or another exception.
Fetch(kind, news, pd) == [kind |-> kind, news |-> news, payment_data |-> pd]

Fetches ==
  {Fetch("news", n, NoPayload) : n \in NewsLists}
    \cup {Fetch("PaymentRequiredException", << >>, pd) : pd \in Payloads}
    \cup {Fetch("ConnectionError", << >>, NoPayload)}

BaseUrls == {server_url, "http://localhost:8000/bitcoin-news"}

\* The provider as the tool meets it: whether BitcoinNews() raises, its
\* base_url, and what retrive_news does.
Provider(ctor, url, fetch) == [ctor |-> ctor, base_url |-> url, fetch |-> fetch]

NoProvider ==
  Provider("none", "", Fetch("none", << >>, NoPayload))

Providers ==
  {Provider("ValueError", "", Fetch("none", << >>, NoPayload))}
    \cup {Provider("ok", u, f) : u \in BaseUrls, f \in Fetches}

AuthTokens == {<< >>} \cup TxRefs

\* article.get(key, default)
ArticleGet(article, key, default) ==
  IF key \in article.keys THEN article[key] ELSE default

\* retrival_tools.py:61-75  the lines of article number i
ArticleLines(i, article) ==
  LET title == ArticleGet(article, "title", "No title")
      summary == ArticleGet(article, "summary", "No summary available")
      url == ArticleGet(article, "url", "")
      source == ArticleGet(article, "source", "Unknown")
      time_published == ArticleGet(article, "time_published", "")
  IN <<ToString(i), ". ", title, "\n", "   Source: ", source, "\n">>
       \o (IF time_published # ""
           THEN <<"   Published: ", time_published, "\n">> ELSE << >>)
       \o <<"   Summary: ", summary, "\n">>
       \o (IF url # "" THEN <<"   URL: ", url, "\n">> ELSE << >>)
       \o <<"\n">>

RECURSIVE FormatFrom(_, _)
FormatFrom(news, i) ==
  IF i > Len(news) THEN << >>
  ELSE ArticleLines(i, news[i]) \o FormatFrom(news, i + 1)

\* retrival_tools.py:59-77
FormatNews(news) ==
  <<"Found ", ToString(Len(news)), " bitcoin news articles:\n\n">>
    \o FormatFrom(news, 1)

NoArticlesText ==
  <<"No bitcoin news articles found for the given criteria.">>

ErrorPrefix == "Error fetching bitcoin news: "

PayloadFieldOrder == <<"amount", "asset", "recipient", "reference", "expiry">>

\* The JSON value of one field of the provider's body.
PayloadFieldValue(pd, f) ==
  CASE f = "amount" -> ToString(pd.amount)
    [] f = "reference" -> pd.reference
    [] f = "expiry" -> IF pd.expired THEN "past" ELSE "future"
    [] f = "asset" -> "SOL"
    [] OTHER -> "wallet"

RECURSIVE DumpsFields(_, _)
DumpsFields(pd, i) ==
  IF i > Len(PayloadFieldOrder) THEN << >>
  ELSE LET f == PayloadFieldOrder[i]
       IN (IF f \in pd.has \cup {"expiry"}
           THEN <<f, ":", PayloadFieldValue(pd, f), ",">> ELSE << >>)
            \o DumpsFields(pd, i + 1)

\* json.dumps of the provider's body: an object of its own.
DumpsPayload(pd) == <<"{">> \o DumpsFields(pd, 1) \o <<"}">>

\* retrival_tools.py:81-87  json.dumps(payment_response)
DumpsPaymentResponse(pd, url) ==
  <<"{", "__402_payment_required__", ":", "true", ",", "payment_data", ":">>
    \o DumpsPayload(pd)
    \o <<",", "source", ":", "bitserver", ",", "url", ":", url, "}">>

ToolReturn(text) == [raised |-> "none", text |-> text]
ToolRaise(c) == [raised |-> c, text |-> << >>]
NoOut == ToolRaise("pending")

\* retrival_tools.py:52-77  the try body: the string it returns or the
\* exception that leaves it.
NewsBody(provider) ==
  IF provider.ctor # "ok" THEN ToolRaise(provider.ctor)
  ELSE IF provider.fetch.kind # "news" THEN ToolRaise(provider.fetch.kind)
  ELSE IF provider.fetch.news = << >> THEN ToolReturn(NoArticlesText)
  ELSE ToolReturn(FormatNews(provider.fetch.news))

\* A get_bitcoin_news whose only handler is the one for the payment exception.
get_bitcoin_news_payment_only(auth_token, provider) ==
  LET b == NewsBody(provider) IN
  IF b.raised = "none" THEN b
  ELSE IF ExcIsA(b.raised, "PaymentRequiredException")
  THEN ToolReturn(DumpsPaymentResponse(provider.fetch.payment_data,
                                       provider.base_url))
  ELSE b

\* retrival_tools.py:35-89  get_bitcoin_news
get_bitcoin_news(auth_token, provider) ==
  LET b == NewsBody(provider) IN
  IF b.raised = "none" THEN b
  ELSE IF ExcIsA(b.raised, "PaymentRequiredException")
  THEN ToolReturn(DumpsPaymentResponse(provider.fetch.payment_data,
                                       provider.base_url))
  ELSE IF ExcIsA(b.raised, "Exception")
  THEN ToolReturn(<<ErrorPrefix, b.raised>>)
  ELSE b

ToolIdle ==
  /\ tool_call = [auth_token |-> << >>, provider |-> NoProvider]
  /\ tool_out = NoOut

\* One call of the tool by the agent.
GetBitcoinNews ==
  /\ tool_out = NoOut
  /\ \E auth_token \in AuthTokens, provider \in Providers :
       /\ tool_call' = [auth_token |-> auth_token, provider |-> provider]
       /\ tool_out' = get_bitcoin_news(auth_token, provider)

\* --------------------------------------------------------- specifications
vars == <<mainVars, retrivVars, dbVars, toolVars>>

\* The stores of the other entry points, at rest.
DbIdle == table = {} /\ db_imported = TRUE /\ last = NoCall

\* One run of test_accountant_agent (main.py).
Init == MainInit /\ RetrivInit /\ DbIdle /\ ToolIdle
Next == MainNext /\ UNCHANGED <<retrivVars, dbVars, toolVars>>
Spec == Init /\ [][Next]_vars

\* The same run, with an operator who may press Ctrl-C (main.py:376-379).
InterruptNext ==
  (MainNext \/ MainInterrupt) /\ UNCHANGED <<retrivVars, dbVars, toolVars>>
SpecInterrupt == Init /\ [][InterruptNext]_vars

\* One call of retriv_run_agent, with or without a caller profile.
RetrivNext ==
  /\ RetrivStep(1, CallerProfiles \cup {NoProfile}, Responses)
  /\ UNCHANGED <<mainVars, dbVars, toolVars>>
RetrivInitOne ==
  MainInit /\ RetrivInit /\ DbIdle /\ ToolIdle /\ lag = 0 /\ fault = "none"
SpecRetriv == RetrivInitOne /\ [][RetrivNext]_vars

\* Two request_news handlers of api_server.py running at once.
ApiResponses ==
  {ContentResponse}
    \cup {ChallengeResponse(Payload(RequiredFields, a, r, FALSE)) :
            a \in Amounts, r \in Refs}
ApiNext ==
  /\ \E i \in Inv : RetrivStep(i, {NoProfile}, ApiResponses)
  /\ UNCHANGED <<mainVars, dbVars, toolVars>>
SpecApi == RetrivInitOne /\ [][ApiNext]_vars

\* The profile endpoints of api_server.py over database.py.
ProfileInit ==
  MainInit /\ RetrivInit /\ DbInit /\ ToolIdle /\ lag = 0 /\ fault = "none"
ProfileNext == DbNext /\ UNCHANGED <<mainVars, retrivVars, toolVars>>
SpecProfile == ProfileInit /\ [][ProfileNext]_vars

\* One call of the get_bitcoin_news tool.
ToolInit == RetrivInitOne
ToolNext == GetBitcoinNews /\ UNCHANGED <<mainVars, retrivVars, dbVars>>
SpecTool == ToolInit /\ [][ToolNext]_vars

\* ------------------------------------------------------------- properties
Last(seq) == seq[Len(seq)]

Before(seq, a, b, k) ==
  \E i \in 1..(k - 1) : seq[i] = a /\ \E j \in (i + 1)..(k - 1) : seq[j] = b

\* C1 as stated: for every decoded bill whose amount exceeds the announced
\* budget limit the policy decision is reject(over_budget).
C1_AlwaysOverBudget ==
  (/\ acct.st \notin {"idle", "evaluate"}
   /\ Decode(acct.payload)
   /\ acct.payload.amount > vip_profile.custom_budget_limit)
    => acct.decision = "over_budget"

\* C1 amended: a bill whose amount exceeds the announced budget limit is
\* never approved and never submitted, whatever the tier or preference; the
\* decision is reject(over_budget) unless the bill has already expired, in
\* which case it is reject(expired).
C1_BudgetCeiling ==
  (acct.st # "idle" /\ acct.payload.amount > vip_profile.custom_budget_limit)
    => /\ acct.decision # "approve"
       /\ acct.submits = 0
       /\ ~Contains(events, "submit")
       /\ (acct.st # "evaluate" /\ Decode(acct.payload))
            => acct.decision =
                 IF acct.payload.expired THEN "expired" ELSE "over_budget"

C1_Witness ==
  /\ acct.st = "returned"
  /\ acct.decision = "over_budget"
  /\ acct.profile.tier = "VIP_PLATINUM"
  /\ acct.payload.amount = vip_profile.custom_budget_limit + 1

\* C2: every redemption request comes after a submit that produced a
\* transaction reference, with the confirmation wait in between.
C2_SubmitWaitRedeem ==
  \A k \in 1..Len(events) :
    events[k] = "redeem"
      => /\ Before(events, "submit", "awaitConfirmation", k)
         /\ Before(events, "submit", "sleep", k)
         /\ Before(events, "awaitConfirmation", "sleep", k)
         /\ acct.tx # << >>
         /\ tx_hash # << >>

C2_Witness ==
  /\ pc = "done"
  /\ events = <<"submit", "awaitConfirmation", "sleep", "redeem">>
  /\ Last(printed) = "Success"

\* C3: an over-budget rejection ends the run with the rejection reported
\* and with no settlement submission and no redemption request.
C3_OverBudgetNoSettlement ==
  acct.decision = "over_budget"
    => /\ acct.submits = 0
       /\ ~Contains(events, "submit")
       /\ ~Contains(events, "redeem")
       /\ attempts = 0
       /\ pc \notin {"sleep", "redeem", "raised"}
       /\ pc = "done"
            => /\ agent_res = RejectText("over_budget")
               /\ Last(printed) = "NotExecuted"

C3_Witness ==
  /\ pc = "done"
  /\ acct.decision = "over_budget"
  /\ acct.payload.amount = 10
  /\ acct.profile.custom_budget_limit = 2
  /\ Last(printed) = "NotExecuted"

\* C4: a failed settlement submission ends the run with
\* payment failed / submission_failed reported and no redemption request.
C4_SubmissionFailedNoRedeem ==
  acct.settle = "failed"
    => /\ ~Contains(events, "redeem")
       /\ attempts = 0
       /\ acct.submits = 1
       /\ pc \notin {"sleep", "redeem", "raised"}
       /\ pc = "done"
            => /\ agent_res = FailText("submission_failed")
               /\ Last(printed) = "NotExecuted"

C4_Witness ==
  /\ pc = "done"
  /\ acct.settle = "failed"
  /\ events = <<"submit">>
  /\ agent_res = FailText("submission_failed")

\* C5: no failure leaves retriv_run_agent as an exception; every invocation
\* that ends has a result to return and nothing to raise.
C5_NeverRaises ==
  \A i \in Inv : rpc[i] \in {"cleanup", "done", "raised"} => rexc[i] = ""

\* C6: the payment handler and the accountant are entered only for a
\* response that carries the 402 marker; plain content is returned as is.
C6_HandlerOnlyOn402 ==
  \A i \in Inv :
    /\ rpc[i] \in {"handler", "accountant"}
         => Contains(agent_response[i].text, Flag402)
    /\ (rpc[i] = "done" /\ agent_response[i] = ContentResponse)
         => result[i] = ContentResponse.text

\* C7: the accountant decides with the profile the caller passed in, and
\* with the built-in default only when the caller passed none.
C7_CallerProfileUsed ==
  \A i \in Inv :
    racct[i].st # "idle"
      => racct[i].profile =
           IF user_profile[i] = NoProfile THEN default_profile
           ELSE user_profile[i]

\* Profiles configured outside the fallback.
ConfiguredProfiles == {vip_profile} \cup CallerProfiles

\* C8: without a caller profile the decision is taken against a profile
\* whose tier and limit are the lowest configured, and the limit binds it.
C8_ConservativeDefault ==
  \A i \in Inv :
    (user_profile[i] = NoProfile /\ racct[i].st # "idle")
      => /\ \A p \in ConfiguredProfiles :
              /\ racct[i].profile.custom_budget_limit
                   <= p.custom_budget_limit
              /\ TierRank(racct[i].profile.tier) <= TierRank(p.tier)
         /\ \A p \in ConfiguredProfiles :
              (racct[i].decision = "approve" \/ racct[i].submits > 0)
                => racct[i].payload.amount <= p.custom_budget_limit

C8_Witness ==
  /\ rpc[1] = "done"
  /\ user_profile[1] = NoProfile
  /\ racct[1].profile.user_id = "default_guest"
  /\ racct[1].decision = "approve"
  /\ racct[1].settle = "confirmed"

\* The key named by the idempotency rule; the resource is the same for
\* every request_news call.
SubmitKey(i) == <<racct[i].profile.user_id, racct[i].payload.reference>>

\* C9: two concurrent invocations with the same resource, caller and
\* challenge reference make at most one submit call between them.
C9_AtMostOneSubmit ==
  \A i, j \in Inv :
    (i # j /\ SubmitKey(i) = SubmitKey(j))
      => racct[i].submits + racct[j].submits <= 1

\* C10: redemption is retried on not_yet_confirmed only, at most 3 attempts
\* in all; two not_yet_confirmed answers followed by success end in
\* Fulfilled after exactly 3 attempts, any other error after its attempt.
C10_BoundedRedeemRetry ==
  (pc = "done" /\ attempts > 0)
    => /\ attempts <= 3
       /\ (lag = 2 /\ fault = "none")
            => attempts = 3 /\ Last(printed) = "Success"
       /\ last_reply \notin {"ok", "not_yet_confirmed"}
            => Last(printed) = "VerificationFailed"

Count(seq, x) == Cardinality({k \in 1..Len(seq) : seq[k] = x})

\* C11: a confirmation wait that runs out ends the run with payment failed /
\* timed_out reported, a reason other than submission_failed, and the payment
\* is submitted once only.
C11_TimedOutNoResubmit ==
  /\ Count(events, "submit") <= 1
  /\ acct.settle = "timed_out"
       => /\ acct.submits = 1
          /\ acct.text = FailText("timed_out")
          /\ acct.text # FailText("submission_failed")
          /\ ~Contains(events, "redeem")
          /\ pc = "done"
               => /\ agent_res = FailText("timed_out")
                  /\ Last(printed) = "NotExecuted"

C11_Witness ==
  /\ pc = "done"
  /\ acct.settle = "timed_out"
  /\ events = <<"submit", "awaitConfirmation">>
  /\ agent_res = FailText("timed_out")

\* What test_accountant_agent prints last when it reports an outcome.
TerminalReports ==
  {"Success", "VerificationFailed", "NotExecuted", "ConnectionFailed",
   "Ok200", "UnexpectedStatus"}

\* C12: every run that ends has reported a terminal outcome, also when the
\* payment is reported successful without an extractable reference.
C12_TerminalReported == pc = "done" => Last(printed) \in TerminalReports

\* C13: every redemption request goes to the resource of the first request
\* and carries exactly the transaction reference the payment returned.
C13_RedeemSameResourceAndReference ==
  \A k \in 2..Len(sent) :
    /\ sent[k].url = sent[1].url
    /\ sent[k].bearer = acct.tx
    /\ acct.settle = "confirmed"
    /\ acct.tx # << >>

C13_Witness ==
  /\ Len(sent) = 2
  /\ sent[1] = [url |-> server_url, bearer |-> << >>]
  /\ sent[2] = [url |-> server_url, bearer |-> <<"a", "b">>]

\* C14: a bill that lacks a required field is answered with a decode error
\* and reaches neither the policy decision nor the payment, and no field of
\* it is filled in on the way.
C14_MalformedNeverDecided ==
  (~Decode(payload) /\ acct.st # "idle")
    => /\ acct.payload = payload
       /\ acct.decision \in {"none", "decode_error"}
       /\ acct.submits = 0
       /\ ~Contains(events, "submit")
       /\ acct.st = "returned" => acct.text = ErrorText
       /\ pc = "done"
            => agent_res = ErrorText /\ Last(printed) = "NotExecuted"

C14_Witness ==
  /\ pc = "done"
  /\ "recipient" \notin payload.has
  /\ acct.decision = "decode_error"
  /\ agent_res = ErrorText

\* C15: an interrupt takes effect only before the payment is submitted or
\* after the settlement has reached a terminal state.
C15_InterruptDeferred ==
  exc = "KeyboardInterrupt"
    => acct.settle \in {"none", "confirmed", "failed", "timed_out"}

\* C16: both GET profile endpoints answer 404 when nothing is stored for the
\* key, 503 being kept for an unavailable database module.
C16_NotFoundIs404 ==
  /\ (last.op = "get_by_id" /\ db_imported
        /\ get_user_profile(last.before, last.user_id) = NoRow)
       => last.status = 404
  /\ (last.op = "get_by_email" /\ db_imported
        /\ get_user_profile_by_email(last.before, last.email) = NoRow)
       => last.status = 404
  /\ (last.op \in {"get_by_id", "get_by_email"} /\ ~db_imported)
       => last.status = 503

\* The dict of the latest direct save.
LastArg == Row(last.user_id, last.name, last.email)

C19_OtherEmailsUntouched ==
  (last.op = "post_profile"
     /\ get_user_profile_by_email(last.before, last.email) = NoRow)
    => \A r \in last.before : r \in table

IsPaymentJson(text) ==
  /\ Len(text) >= 9
  /\ SubSeq(text, 1, 3) = <<"{", "__402_payment_required__", ":">>
  /\ SubSeq(text, 5, 8) = <<",", "payment_data", ":", "{">>
  /\ \E j \in 9..Len(text) : text[j] = "}"

PaymentDataEnd(text) ==
  CHOOSE j \in 9..Len(text) :
    text[j] = "}" /\ \A k \in 9..(j - 1) : text[k] # "}"

LoadsPaymentData(text) == SubSeq(text, 8, PaymentDataEnd(text))

LoadsKey(text, key) ==
  LET from == PaymentDataEnd(text) + 1
      at == {i \in from..(Len(text) - 2) : text[i] = key /\ text[i + 1] = ":"}
  IN IF at = {} THEN "" ELSE text[(CHOOSE i \in at : TRUE) + 2]

\* C18: get_bitcoin_news always gives a string and raises nothing: for the
\* payment exception a JSON object with "__402_payment_required__": true,
\* the provider's payment_data and the resource URL; for another exception
\* an error string; otherwise the formatted articles.
C18_AlwaysAString ==
  tool_out # NoOut
    => LET provider == tool_call.provider
           fetch == provider.fetch
       IN /\ tool_out.raised = "none"
          /\ tool_out.text # << >>
          /\ (provider.ctor = "ok" /\ fetch.kind = "PaymentRequiredException")
               => /\ IsPaymentJson(tool_out.text)
                  /\ tool_out.text[4] = "true"
                  /\ LoadsPaymentData(tool_out.text)
                       = DumpsPayload(fetch.payment_data)
                  /\ LoadsKey(tool_out.text, "url") = provider.base_url
          /\ (provider.ctor # "ok" \/ fetch.kind = "ConnectionError")
               => /\ Head(tool_out.text) = ErrorPrefix
                  /\ ~IsPaymentJson(tool_out.text)
          /\ (provider.ctor = "ok" /\ fetch.kind = "news")
               => /\ ~IsPaymentJson(tool_out.text)
                  /\ Head(tool_out.text) # ErrorPrefix
                  /\ \A i \in 1..Len(fetch.news) :
                       /\ Contains(tool_out.text, ToString(i))
                       /\ "title" \in fetch.news[i].keys
                            => Contains(tool_out.text, fetch.news[i].title)

C18_Witness ==
  /\ tool_out # NoOut
  /\ tool_call.provider.fetch.kind = "PaymentRequiredException"
  /\ tool_call.provider.base_url # server_url
  /\ tool_call.provider.fetch.payment_data.has # RequiredFields
  /\ IsPaymentJson(tool_out.text)

\* C21: whatever save_user_profile calls were made, no two stored profiles
\* have the same user_id and no two have the same email.
C21_UniqueUserIdAndEmail ==
  \A r1 \in table : \A r2 \in table \ {r1} :
    r1.user_id # r2.user_id /\ r1.email # r2.email

=============================================================================
